---- MODULE Spec2Model ----
(***************************************************************************)
(* A model of detect_secrets/plugins/keyword.py (KeywordDetector) and of   *)
(* the verification contract of the IBM Cloud IAM detector.                *)
(*                                                                         *)
(* Lines are sequences of characters.  The regular expressions of          *)
(* keyword.py are syntax trees built from the fragments the source builds  *)
(* its pattern texts from, and they are run by a backtracking matcher with *)
(* the priorities of Python's re module (leftmost start, alternatives in   *)
(* order, greedy and lazy repetition, capture groups, back-references,     *)
(* look-ahead, re.IGNORECASE).                                             *)
(***************************************************************************)
EXTENDS Integers, Sequences, FiniteSets, TLC

(***************************************************************************)
(* Characters                                                              *)
(***************************************************************************)

\* A text (a line, a candidate) is a sequence of characters, each a
\* one-character string.  Two characters that a TLA+ string cannot hold have
\* names: the vertical tab, which is what backslash-v means to Python's re
\* module, and the backtick.
VT == "<VT>"

BT == "<BT>"

\* str.lower() and re.IGNORECASE folding, letter by letter.
LowerMap ==
  ("A" :> "a") @@ ("B" :> "b") @@ ("C" :> "c") @@ ("D" :> "d") @@ ("E" :> "e") @@
  ("F" :> "f") @@ ("G" :> "g") @@ ("H" :> "h") @@ ("I" :> "i") @@ ("J" :> "j") @@
  ("K" :> "k") @@ ("L" :> "l") @@ ("M" :> "m") @@ ("N" :> "n") @@ ("O" :> "o") @@
  ("P" :> "p") @@ ("Q" :> "q") @@ ("R" :> "r") @@ ("S" :> "s") @@ ("T" :> "t") @@
  ("U" :> "u") @@ ("V" :> "v") @@ ("W" :> "w") @@ ("X" :> "x") @@ ("Y" :> "y") @@
  ("Z" :> "z")

UpperLetters == DOMAIN LowerMap

LowerLetters == {LowerMap[c] : c \in UpperLetters}

Digits == {"0", "1", "2", "3", "4", "5", "6", "7", "8", "9"}

\* The word class of a str pattern: letters (non-ASCII ones too), digits and underscore.
WordChars == UpperLetters \cup LowerLetters \cup Digits \cup {"_", "ñ"}

\* The whitespace class of a str pattern, as far as a TLA+ string can hold it.
SpaceChars == {" ", "\t", "\n", "\r", "\f", VT}

Lower(c) == IF c \in UpperLetters THEN LowerMap[c] ELSE c

Upper(c) ==
  IF c \in LowerLetters THEN CHOOSE u \in UpperLetters : LowerMap[u] = c ELSE c

\* The text of a TLA+ string.
Chars(str) == [i \in 1..Len(str) |-> SubSeq(str, i, i)]

\* str.lower()
LowerText(text) == [i \in 1..Len(text) |-> Lower(text[i])]

\* needle in hay, Python's substring test on str.
Contains(hay, needle) ==
  \E i \in 1..(Len(hay) - Len(needle) + 1) :
    \A d \in 1..Len(needle) : hay[i + d - 1] = needle[d]

(***************************************************************************)
(* Regular-expression syntax trees.  A pattern is a sequence of nodes.     *)
(***************************************************************************)

Lit(c) == [t |-> "lit", c |-> c]

\* A literal text, one node per character.
Str(str) == [i \in 1..Len(str) |-> Lit(SubSeq(str, i, i))]

Cls(set) == [t |-> "cls", neg |-> FALSE, set |-> set]

NCls(set) == [t |-> "cls", neg |-> TRUE, set |-> set]

AnyChar == [t |-> "any"]

WordBoundary == [t |-> "wb"]

\* ( ... ): numbered when the pattern is compiled.
Grp(body) == [t |-> "grp", k |-> 0, body |-> body]

\* body{min,max}, max = -1 for no limit; n counts the iterations done.
Rep(min, max, body) ==
  [t |-> "rep", min |-> min, max |-> max, greedy |-> TRUE, body |-> body, n |-> 0]

Lazy(min, max, body) ==
  [t |-> "rep", min |-> min, max |-> max, greedy |-> FALSE, body |-> body, n |-> 0]

Opt(body) == Rep(0, 1, body)

Star(body) == Rep(0, -1, body)

Alt(alts) == [t |-> "alt", alts |-> alts]

BackRef(k) == [t |-> "bref", k |-> k]

LookAhead(body) == [t |-> "look", body |-> body]

(***************************************************************************)
(* re.compile: groups are numbered by their opening parenthesis, left to   *)
(* right.                                                                  *)
(***************************************************************************)

RECURSIVE NumberSeq(_, _)
RECURSIVE NumberAlts(_, _)

NumberNode(node, next) ==
  CASE node.t = "grp" ->
         LET b == NumberSeq(node.body, next + 1)
         IN  [re |-> [node EXCEPT !.k = next, !.body = b.re], next |-> b.next]
    [] node.t = "rep" ->
         LET b == NumberSeq(node.body, next)
         IN  [re |-> [node EXCEPT !.body = b.re], next |-> b.next]
    [] node.t = "look" ->
         LET b == NumberSeq(node.body, next)
         IN  [re |-> [node EXCEPT !.body = b.re], next |-> b.next]
    [] node.t = "alt" ->
         LET b == NumberAlts(node.alts, next)
         IN  [re |-> [node EXCEPT !.alts = b.re], next |-> b.next]
    [] OTHER -> [re |-> node, next |-> next]

NumberSeq(re, next) ==
  IF Len(re) = 0 THEN [re |-> <<>>, next |-> next]
  ELSE LET h == NumberNode(Head(re), next)
           r == NumberSeq(Tail(re), h.next)
       IN  [re |-> <<h.re>> \o r.re, next |-> r.next]

NumberAlts(alts, next) ==
  IF Len(alts) = 0 THEN [re |-> <<>>, next |-> next]
  ELSE LET h == NumberSeq(Head(alts), next)
           r == NumberAlts(Tail(alts), h.next)
       IN  [re |-> <<h.re>> \o r.re, next |-> r.next]

(***************************************************************************)
(* The program of a pattern, for a backtracking machine: a sequence of     *)
(* instructions with relative jumps.  split names the branch to try first  *)
(* and the branch to try when the first fails, which is where the          *)
(* priorities of the pattern (alternatives in order, greedy or lazy        *)
(* repetition) are kept.  The repetition of one character or class is a    *)
(* span: the counts are tried from the longest down when greedy and from   *)
(* the shortest up when lazy.  Under re.IGNORECASE the literals are folded *)
(* to lower case and the classes closed under case, and the program is run *)
(* on the folded text.                                                     *)
(***************************************************************************)

FoldSet(set, ic) ==
  IF ic THEN set \cup {Lower(c) : c \in set} \cup {Upper(c) : c \in set} ELSE set

RECURSIVE Times(_, _)
Times(code, n) == IF n = 0 THEN <<>> ELSE code \o Times(code, n - 1)

\* Up to n more iterations of code, each one optional.
RECURSIVE Optional(_, _, _)
Optional(code, n, greedy) ==
  IF n = 0 THEN <<>>
  ELSE LET more == code \o Optional(code, n - 1, greedy)
       IN  <<IF greedy THEN [op |-> "split", x |-> 1, y |-> Len(more) + 1]
             ELSE [op |-> "split", x |-> Len(more) + 1, y |-> 1]>> \o more

Loop(code, greedy) ==
  <<IF greedy THEN [op |-> "split", x |-> 1, y |-> Len(code) + 2]
    ELSE [op |-> "split", x |-> Len(code) + 2, y |-> 1]>>
    \o code \o <<[op |-> "jmp", x |-> 0 - (Len(code) + 1)]>>

RECURSIVE Gen(_, _)
RECURSIVE GenAlts(_, _)

GenNode(node, ic) ==
  CASE node.t = "lit" -> <<[op |-> "char", c |-> IF ic THEN Lower(node.c) ELSE node.c]>>
    [] node.t = "cls" ->
         <<[op |-> "set", neg |-> node.neg, set |-> FoldSet(node.set, ic)]>>
    [] node.t = "any" -> <<[op |-> "any"]>>
    [] node.t = "wb" -> <<[op |-> "wb"]>>
    [] node.t = "bref" -> <<[op |-> "bref", k |-> node.k]>>
    [] node.t = "grp" ->
         <<[op |-> "open", k |-> node.k]>> \o Gen(node.body, ic)
           \o <<[op |-> "close", k |-> node.k]>>
    [] node.t = "alt" -> GenAlts(node.alts, ic)
    [] node.t = "look" ->
         LET code == Gen(node.body, ic)
         IN  <<[op |-> "look", x |-> Len(code) + 2]>> \o code \o <<[op |-> "match"]>>
    [] node.t = "rep" ->
         LET code == Gen(node.body, ic)
         IN  IF Len(node.body) = 1 /\ node.body[1].t \in {"lit", "cls", "any"}
             THEN <<[op |-> "span", item |-> code[1], min |-> node.min,
                     max |-> node.max, greedy |-> node.greedy]>>
             ELSE Times(code, node.min)
                    \o IF node.max = -1 THEN Loop(code, node.greedy)
                       ELSE Optional(code, node.max - node.min, node.greedy)

Gen(re, ic) ==
  IF Len(re) = 0 THEN <<>> ELSE GenNode(Head(re), ic) \o Gen(Tail(re), ic)

\* Alternatives that all begin with a literal are entered through a switch
\* on the next character: it names, in the order of the alternatives, the
\* ones that begin with that character, which are the only ones that can
\* match.  Other alternations are a chain of splits.
RECURSIVE Starts(_, _, _)
Starts(codes, k, at) ==
  IF k > Len(codes) THEN <<>>
  ELSE <<at>> \o Starts(codes, k + 1, at + Len(codes[k]) + 1)

RECURSIVE Branches(_, _, _, _)
Branches(codes, starts, k, total) ==
  IF k > Len(codes) THEN <<>>
  ELSE codes[k] \o <<[op |-> "jmp", x |-> total - (starts[k] + Len(codes[k])) + 1]>>
         \o Branches(codes, starts, k + 1, total)

Switch(codes) ==
  LET starts == Starts(codes, 1, 1)
      total == starts[Len(codes)] + Len(codes[Len(codes)])
      firsts == {codes[k][1].c : k \in 1..Len(codes)}
      table == [c \in firsts |->
                  LET Begins(k) == codes[k][1].c = c
                  IN  [j \in 1..Cardinality({k \in 1..Len(codes) : Begins(k)}) |->
                         starts[CHOOSE k \in 1..Len(codes) :
                                  /\ Begins(k)
                                  /\ Cardinality({m \in 1..k : Begins(m)}) = j]]]
  IN  <<[op |-> "switch", table |-> table]>> \o Branches(codes, starts, 1, total)

GenAlts(alts, ic) ==
  IF Len(alts) = 1 THEN Gen(Head(alts), ic)
  ELSE IF \A k \in 1..Len(alts) : Len(alts[k]) > 0 /\ alts[k][1].t = "lit"
  THEN Switch([k \in 1..Len(alts) |-> Gen(alts[k], ic)])
  ELSE LET first == Gen(Head(alts), ic)
           others == GenAlts(Tail(alts), ic)
       IN  <<[op |-> "split", x |-> 1, y |-> Len(first) + 2]>> \o first
             \o <<[op |-> "jmp", x |-> Len(others) + 1]>> \o others

\* A compiled pattern: its program, its number of groups and its flags.
ReCompile(re, ignorecase) ==
  LET n == NumberSeq(re, 1)
  IN  [prog |-> Gen(n.re, ignorecase) \o <<[op |-> "match"]>>,
       groups |-> n.next - 1, ignorecase |-> ignorecase]

(***************************************************************************)
(* The machine.  Run(prog, s, pc, i, caps) runs prog from instruction pc   *)
(* on the text s from position i and returns the first success in          *)
(* backtracking order, [end, caps], or NoMatch.  caps[k] is <<from, to>>   *)
(* for group k (to exclusive); to is 0 while the group has not matched.    *)
(***************************************************************************)

NoMatch == [end |-> 0, caps |-> <<>>]

IsWordAt(s, i) == i >= 1 /\ i <= Len(s) /\ s[i] \in WordChars

\* Whether the character at position i is one the instruction takes.
Fits(ins, s, i) ==
  /\ i <= Len(s)
  /\ CASE ins.op = "char" -> s[i] = ins.c
       [] ins.op = "set" -> (s[i] \in ins.set) # ins.neg
       [] ins.op = "any" -> s[i] # "\n"

\* How many characters from position i on the instruction takes, up to limit
\* (-1: no limit).
RECURSIVE RunLength(_, _, _, _)
RunLength(ins, s, i, limit) ==
  IF limit # 0 /\ Fits(ins, s, i)
  THEN 1 + RunLength(ins, s, i + 1, IF limit = -1 THEN -1 ELSE limit - 1)
  ELSE 0

RECURSIVE Run(_, _, _, _, _)
RECURSIVE RunBranches(_, _, _, _, _, _, _)
RECURSIVE RunSpan(_, _, _, _, _, _, _, _)

Run(prog, s, pc, i, caps) ==
  LET ins == prog[pc]
  IN
  CASE ins.op = "char" ->
         IF i <= Len(s) /\ s[i] = ins.c
         THEN Run(prog, s, pc + 1, i + 1, caps) ELSE NoMatch
    [] ins.op = "split" ->
         LET first == Run(prog, s, pc + ins.x, i, caps)
         IN  IF first.end # 0 THEN first ELSE Run(prog, s, pc + ins.y, i, caps)
    [] ins.op = "switch" ->
         IF i <= Len(s) /\ s[i] \in DOMAIN ins.table
         THEN RunBranches(prog, s, pc, ins.table[s[i]], 1, i, caps) ELSE NoMatch
    [] ins.op = "set" ->
         IF i <= Len(s) /\ (s[i] \in ins.set) # ins.neg
         THEN Run(prog, s, pc + 1, i + 1, caps) ELSE NoMatch
    [] ins.op = "span" ->
         LET most == RunLength(ins.item, s, i, ins.max)
         IN  IF most < ins.min THEN NoMatch
             ELSE IF ins.greedy THEN RunSpan(prog, s, pc, i, caps, most, ins.min, -1)
             ELSE RunSpan(prog, s, pc, i, caps, ins.min, most, 1)
    [] ins.op = "jmp" -> Run(prog, s, pc + ins.x, i, caps)
    [] ins.op = "open" ->
         Run(prog, s, pc + 1, i, [caps EXCEPT ![ins.k] = <<i, 0>>])
    [] ins.op = "close" ->
         Run(prog, s, pc + 1, i, [caps EXCEPT ![ins.k] = <<caps[ins.k][1], i>>])
    [] ins.op = "any" ->
         IF i <= Len(s) /\ s[i] # "\n"
         THEN Run(prog, s, pc + 1, i + 1, caps) ELSE NoMatch
    [] ins.op = "wb" ->
         IF IsWordAt(s, i - 1) # IsWordAt(s, i)
         THEN Run(prog, s, pc + 1, i, caps) ELSE NoMatch
    [] ins.op = "bref" ->
         LET from == caps[ins.k][1]
             len == caps[ins.k][2] - caps[ins.k][1]
         IN  IF /\ caps[ins.k][2] # 0
                /\ i + len - 1 <= Len(s)
                /\ \A d \in 0..(len - 1) : s[i + d] = s[from + d]
             THEN Run(prog, s, pc + 1, i + len, caps) ELSE NoMatch
    [] ins.op = "look" ->
         IF Run(prog, s, pc + 1, i, caps).end # 0
         THEN Run(prog, s, pc + ins.x, i, caps) ELSE NoMatch
    [] ins.op = "match" -> [end |-> i, caps |-> caps]

RunBranches(prog, s, pc, starts, k, i, caps) ==
  IF k > Len(starts) THEN NoMatch
  ELSE LET first == Run(prog, s, pc + starts[k], i, caps)
       IN  IF first.end # 0 THEN first
           ELSE RunBranches(prog, s, pc, starts, k + 1, i, caps)

\* The rest of the program after n repetitions, for n from the first count
\* tried to the last.
RunSpan(prog, s, pc, i, caps, n, last, step) ==
  LET first == Run(prog, s, pc + 1, i + n, caps)
  IN  IF first.end # 0 \/ n = last THEN first
      ELSE RunSpan(prog, s, pc, i, caps, n + step, last, step)

\* Pattern.search(string): the match at the leftmost start, or NoMatch.
RECURSIVE SearchFrom(_, _, _)
SearchFrom(pattern, s, i) ==
  IF i > Len(s) + 1 THEN [start |-> 0] @@ NoMatch
  ELSE LET m == Run(pattern.prog, s, 1, i, [k \in 1..pattern.groups |-> <<0, 0>>])
       IN  IF m.end # 0 THEN [start |-> i] @@ m
           ELSE SearchFrom(pattern, s, i + 1)

Search(pattern, string) ==
  SearchFrom(pattern, IF pattern.ignorecase THEN LowerText(string) ELSE string, 1)

Matched(m) == m.end # 0

\* Python's None, and an object that is not None: an optional value is a
\* sequence of no or one element.
None == <<>>

Some(v) == <<v>>

\* Match.group(k) on the searched string: the text of group k, None for a
\* group that did not take part, IndexError for a group the pattern lacks.
\* The two are written as texts of one named character, which no line holds.
NoneValue == <<"<None>">>

IndexError == <<"<IndexError>">>

MatchGroup(pattern, string, m, k) ==
  IF k < 0 \/ k > pattern.groups THEN IndexError
  ELSE IF k = 0 THEN SubSeq(string, m.start, m.end - 1)
  ELSE IF m.caps[k][2] = 0 THEN NoneValue
  ELSE SubSeq(string, m.caps[k][1], m.caps[k][2] - 1)

(***************************************************************************)
(* The fragments of keyword.py and the pattern families built from them.   *)
(***************************************************************************)

\* The keyword roots, each one a pattern text of the source.
DENYLIST == <<
  Str("api") \o <<Opt(<<Cls({"_", ".", "-"})>>)>> \o Str("key"),
  Str("auth") \o <<Opt(Str("_"))>> \o Str("key"),
  Str("service") \o <<Opt(Str("_"))>> \o Str("key"),
  Str("account") \o <<Opt(Str("_"))>> \o Str("key"),
  Str("db") \o <<Opt(Str("_"))>> \o Str("key"),
  Str("database") \o <<Opt(Str("_"))>> \o Str("key"),
  Str("priv") \o <<Opt(Str("_"))>> \o Str("key"),
  Str("private") \o <<Opt(Str("_"))>> \o Str("key"),
  Str("client") \o <<Opt(Str("_"))>> \o Str("key"),
  Str("db") \o <<Opt(Str("_"))>> \o Str("pass"),
  Str("database") \o <<Opt(Str("_"))>> \o Str("pass"),
  Str("key") \o <<Opt(Str("_"))>> \o Str("pass"),
  Str("password"),
  Str("passwd"),
  Str("token"),
  Str("_pass") \o <<WordBoundary>>,
  Str("pwd"),
  Str("secret"),
  Str("contraseña"),
  Str("contrasena"),
  Str("recaptcha_") \o <<Star(<<AnyChar>>)>> \o Str("key"),
  Str("nessus") \o <<Opt(Str("_"))>> \o Str("key")
>>

ALLOWLIST == <<
  "publickeytoken",
  "tokenendpoint",
  "secretname",
  "keyvaultsecretname",
  "maxInvalidPasswordAttempts",
  "PasswordType",
  "forwardWindowsAuthToken",
  "saveBootstrapTokens",
  "AntiXsrfTokenKey",
  "savePWD",
  "userPWD",
  "example"
>>

\* Up to two of: closing square bracket, single quote, double quote.
CLOSING == <<Rep(0, 2, <<Cls({"]", "'", "\""})>>)>>

\* Any number of word characters, greedy.
AFFIX_REGEX == <<Star(<<Cls(WordChars)>>)>>

\* The keyword roots joined into one alternation.
DENYLIST_JOINED == <<Alt(DENYLIST)>>

\* The alternation as a group, then the suffix.
DENYLIST_REGEX == <<Grp(DENYLIST_JOINED)>> \o AFFIX_REGEX

\* The prefix, then DENYLIST_REGEX.
DENYLIST_REGEX_WITH_PREFIX == AFFIX_REGEX \o DENYLIST_REGEX

\* Any number of whitespace characters, greedy.
OPTIONAL_WHITESPACE == <<Star(<<Cls(SpaceChars)>>)>>

\* Up to 50 non-whitespace characters, as few as possible.
OPTIONAL_NON_WHITESPACE == <<Lazy(0, 50, <<NCls(SpaceChars)>>)>>

\* One single quote, double quote or backtick.
QUOTE == <<Cls({"'", "\"", BT})>>

\* The characters a secret may start with: ASCII letters, digits and _!@#%^&.
SecretStart ==
  UpperLetters \cup LowerLetters \cup Digits \cup {"_", "!", "@", "#", "%", "^", "&"}

\* A look-ahead that always succeeds, a look-ahead for a start character, a
\* greedy run of characters other than VT and the two quotes, and a last
\* character other than VT, comma, the two quotes and the backtick.
SECRET == <<
  LookAhead(<<Star(<<NCls({VT, "'", "\""})>>)>>),
  LookAhead(<<Cls(SecretStart)>>),
  Star(<<NCls({VT, "'", "\""})>>),
  NCls({VT, ",", "'", "\"", BT})
>>

\* A group: square brackets around any number of digits.
SQUARE_BRACKETS == <<Grp(Str("[") \o <<Star(<<Cls(Digits)>>)>> \o Str("]"))>>

\* denylist (closing)? ws : =? ws (quote?) (secret) (backref 3)
FOLLOWED_BY_COLON_EQUAL_SIGNS_REGEX == ReCompile(
  DENYLIST_REGEX \o <<Opt(<<Grp(CLOSING)>>)>> \o OPTIONAL_WHITESPACE
    \o Str(":") \o <<Opt(Str("="))>> \o OPTIONAL_WHITESPACE
    \o <<Grp(<<Opt(QUOTE)>>), Grp(SECRET), Grp(<<BackRef(3)>>)>>,
  TRUE)

\* denylist (closing)? : ws (quote?) (secret) (backref 3)
FOLLOWED_BY_COLON_REGEX == ReCompile(
  DENYLIST_REGEX \o <<Opt(<<Grp(CLOSING)>>)>> \o Str(":") \o OPTIONAL_WHITESPACE
    \o <<Grp(<<Opt(QUOTE)>>), Grp(SECRET), Grp(<<BackRef(3)>>)>>,
  TRUE)

\* denylist (closing)? : (ws) (quote) (secret) (backref 4)
FOLLOWED_BY_COLON_QUOTES_REQUIRED_REGEX == ReCompile(
  DENYLIST_REGEX \o <<Opt(<<Grp(CLOSING)>>)>> \o Str(":")
    \o <<Grp(OPTIONAL_WHITESPACE), Grp(QUOTE), Grp(SECRET), Grp(<<BackRef(4)>>)>>,
  TRUE)

\* denylist (square_brackets)? ws [!=]{1,2} ws (@)? (double quote) (secret)
\* (backref 5)
FOLLOWED_BY_EQUAL_SIGNS_OPTIONAL_BRACKETS_OPTIONAL_AT_SIGN_QUOTES_REQUIRED_REGEX ==
  ReCompile(
    DENYLIST_REGEX \o <<Opt(<<Grp(SQUARE_BRACKETS)>>)>> \o OPTIONAL_WHITESPACE
      \o <<Rep(1, 2, <<Cls({"!", "="})>>)>> \o OPTIONAL_WHITESPACE
      \o <<Opt(<<Grp(Str("@"))>>), Grp(Str("\"")), Grp(SECRET), Grp(<<BackRef(5)>>)>>,
    TRUE)

\* denylist (.assign)? open-paren (double quote) (secret) (backref 3),
\* compiled without flags
FOLLOWED_BY_OPTIONAL_ASSIGN_QUOTES_REQUIRED_REGEX == ReCompile(
  DENYLIST_REGEX \o <<Opt(<<Grp(<<AnyChar>> \o Str("assign"))>>)>> \o Str("(")
    \o <<Grp(Str("\"")), Grp(SECRET), Grp(<<BackRef(3)>>)>>,
  FALSE)

\* denylist (closing)? ws (={1,3} or !==?) ws (quote?) (secret) (backref 4)
FOLLOWED_BY_EQUAL_SIGNS_REGEX == ReCompile(
  DENYLIST_REGEX \o <<Opt(<<Grp(CLOSING)>>)>> \o OPTIONAL_WHITESPACE
    \o <<Grp(<<Alt(<< <<Rep(1, 3, Str("="))>>,
                      Str("!=") \o <<Opt(Str("="))>> >>)>>)>>
    \o OPTIONAL_WHITESPACE
    \o <<Grp(<<Opt(QUOTE)>>), Grp(SECRET), Grp(<<BackRef(4)>>)>>,
  TRUE)

\* denylist (closing)? ws (={1,3} or !==?) ws (quote) (secret) (backref 4)
FOLLOWED_BY_EQUAL_SIGNS_QUOTES_REQUIRED_REGEX == ReCompile(
  DENYLIST_REGEX \o <<Opt(<<Grp(CLOSING)>>)>> \o OPTIONAL_WHITESPACE
    \o <<Grp(<<Alt(<< <<Rep(1, 3, Str("="))>>,
                      Str("!=") \o <<Opt(Str("="))>> >>)>>)>>
    \o OPTIONAL_WHITESPACE
    \o <<Grp(QUOTE), Grp(SECRET), Grp(<<BackRef(4)>>)>>,
  TRUE)

\* (quote) (secret) (backref 1) ws [!=]{2,3} ws denylist-with-prefix,
\* compiled without flags
PRECEDED_BY_EQUAL_COMPARISON_SIGNS_QUOTES_REQUIRED_REGEX == ReCompile(
  <<Grp(QUOTE), Grp(SECRET), Grp(<<BackRef(1)>>)>> \o OPTIONAL_WHITESPACE
    \o <<Rep(2, 3, <<Cls({"!", "="})>>)>> \o OPTIONAL_WHITESPACE
    \o DENYLIST_REGEX_WITH_PREFIX,
  FALSE)

\* denylist nonWhitespace ws (quote) (secret) (backref 2) ;
FOLLOWED_BY_QUOTES_AND_SEMICOLON_REGEX == ReCompile(
  DENYLIST_REGEX \o OPTIONAL_NON_WHITESPACE \o OPTIONAL_WHITESPACE
    \o <<Grp(QUOTE), Grp(SECRET), Grp(<<BackRef(2)>>)>> \o Str(";"),
  TRUE)

\* denylist (closing)? ws = >? ws (quote) (secret) (backref 3)
FOLLOWED_BY_ARROW_FUNCTION_SIGN_QUOTES_REQUIRED_REGEX == ReCompile(
  DENYLIST_REGEX \o <<Opt(<<Grp(CLOSING)>>)>> \o OPTIONAL_WHITESPACE
    \o Str("=") \o <<Opt(Str(">"))>> \o OPTIONAL_WHITESPACE
    \o <<Grp(QUOTE), Grp(SECRET), Grp(<<BackRef(3)>>)>>,
  TRUE)

\* data.put open-paren ws quote denylist-with-prefix quote ws , ws
\* quote (secret) quote ws close-paren: no quote is a group.
DATA_PUT_PASSWORD_REGEX == ReCompile(
  Str("data.put(") \o OPTIONAL_WHITESPACE \o QUOTE \o DENYLIST_REGEX_WITH_PREFIX
    \o QUOTE \o OPTIONAL_WHITESPACE \o Str(",") \o OPTIONAL_WHITESPACE
    \o QUOTE \o <<Grp(SECRET)>> \o QUOTE \o OPTIONAL_WHITESPACE \o Str(")"),
  TRUE)

\* The compiled pattern behind each name: rule sets are keyed by pattern, and
\* the model keys them by the pattern's name.
Regex(name) ==
  CASE name = "FOLLOWED_BY_COLON_EQUAL_SIGNS_REGEX" -> FOLLOWED_BY_COLON_EQUAL_SIGNS_REGEX
    [] name = "FOLLOWED_BY_COLON_REGEX" -> FOLLOWED_BY_COLON_REGEX
    [] name = "FOLLOWED_BY_COLON_QUOTES_REQUIRED_REGEX" ->
         FOLLOWED_BY_COLON_QUOTES_REQUIRED_REGEX
    [] name = "FOLLOWED_BY_EQUAL_SIGNS_OPTIONAL_BRACKETS_OPTIONAL_AT_SIGN_QUOTES_REQUIRED_REGEX" ->
         FOLLOWED_BY_EQUAL_SIGNS_OPTIONAL_BRACKETS_OPTIONAL_AT_SIGN_QUOTES_REQUIRED_REGEX
    [] name = "FOLLOWED_BY_OPTIONAL_ASSIGN_QUOTES_REQUIRED_REGEX" ->
         FOLLOWED_BY_OPTIONAL_ASSIGN_QUOTES_REQUIRED_REGEX
    [] name = "FOLLOWED_BY_EQUAL_SIGNS_REGEX" -> FOLLOWED_BY_EQUAL_SIGNS_REGEX
    [] name = "FOLLOWED_BY_EQUAL_SIGNS_QUOTES_REQUIRED_REGEX" ->
         FOLLOWED_BY_EQUAL_SIGNS_QUOTES_REQUIRED_REGEX
    [] name = "PRECEDED_BY_EQUAL_COMPARISON_SIGNS_QUOTES_REQUIRED_REGEX" ->
         PRECEDED_BY_EQUAL_COMPARISON_SIGNS_QUOTES_REQUIRED_REGEX
    [] name = "FOLLOWED_BY_QUOTES_AND_SEMICOLON_REGEX" ->
         FOLLOWED_BY_QUOTES_AND_SEMICOLON_REGEX
    [] name = "FOLLOWED_BY_ARROW_FUNCTION_SIGN_QUOTES_REQUIRED_REGEX" ->
         FOLLOWED_BY_ARROW_FUNCTION_SIGN_QUOTES_REQUIRED_REGEX
    [] name = "DATA_PUT_PASSWORD_REGEX" -> DATA_PUT_PASSWORD_REGEX

(***************************************************************************)
(* The rule sets: dicts from pattern to the group number of the secret,    *)
(* in insertion order.                                                     *)
(***************************************************************************)

Entry(name, group) == [regex |-> name, group |-> group]

\* Dict unpacking followed by an item: an existing key keeps its place and
\* takes the value, a new key goes last.
DictSet(d, key, value) ==
  IF \E i \in 1..Len(d) : d[i].regex = key
  THEN [i \in 1..Len(d) |-> IF d[i].regex = key THEN Entry(key, value) ELSE d[i]]
  ELSE Append(d, Entry(key, value))

CONFIG_DENYLIST_REGEX_TO_GROUP == <<
  Entry("FOLLOWED_BY_COLON_REGEX", 4),
  Entry("PRECEDED_BY_EQUAL_COMPARISON_SIGNS_QUOTES_REQUIRED_REGEX", 2),
  Entry("FOLLOWED_BY_EQUAL_SIGNS_REGEX", 5),
  Entry("FOLLOWED_BY_QUOTES_AND_SEMICOLON_REGEX", 3)
>>

GOLANG_DENYLIST_REGEX_TO_GROUP == <<
  Entry("FOLLOWED_BY_COLON_EQUAL_SIGNS_REGEX", 4),
  Entry("PRECEDED_BY_EQUAL_COMPARISON_SIGNS_QUOTES_REQUIRED_REGEX", 2),
  Entry("FOLLOWED_BY_EQUAL_SIGNS_REGEX", 5),
  Entry("FOLLOWED_BY_QUOTES_AND_SEMICOLON_REGEX", 3)
>>

\* The rule set of the C family with the index of the quote group.
CommonCWithQuoteGroup == <<
  Entry("FOLLOWED_BY_EQUAL_SIGNS_OPTIONAL_BRACKETS_OPTIONAL_AT_SIGN_QUOTES_REQUIRED_REGEX", 5)
>>

COMMON_C_DENYLIST_REGEX_TO_GROUP == <<
  Entry("FOLLOWED_BY_EQUAL_SIGNS_OPTIONAL_BRACKETS_OPTIONAL_AT_SIGN_QUOTES_REQUIRED_REGEX", 6)
>>

C_PLUS_PLUS_REGEX_TO_GROUP == <<
  Entry("FOLLOWED_BY_OPTIONAL_ASSIGN_QUOTES_REQUIRED_REGEX", 4),
  Entry("FOLLOWED_BY_EQUAL_SIGNS_QUOTES_REQUIRED_REGEX", 5)
>>

QUOTES_REQUIRED_DENYLIST_REGEX_TO_GROUP == <<
  Entry("FOLLOWED_BY_COLON_QUOTES_REQUIRED_REGEX", 5),
  Entry("PRECEDED_BY_EQUAL_COMPARISON_SIGNS_QUOTES_REQUIRED_REGEX", 2),
  Entry("FOLLOWED_BY_EQUAL_SIGNS_QUOTES_REQUIRED_REGEX", 5),
  Entry("FOLLOWED_BY_QUOTES_AND_SEMICOLON_REGEX", 3),
  Entry("FOLLOWED_BY_ARROW_FUNCTION_SIGN_QUOTES_REQUIRED_REGEX", 4),
  Entry("DATA_PUT_PASSWORD_REGEX", 2)
>>

TERRAFORM_DENYLIST_REGEX_TO_GROUP ==
  DictSet(QUOTES_REQUIRED_DENYLIST_REGEX_TO_GROUP, "FOLLOWED_BY_EQUAL_SIGNS_REGEX", 5)

\* The rule-set dicts, by name.
RULE_SETS ==
  [CONFIG_DENYLIST_REGEX_TO_GROUP |-> CONFIG_DENYLIST_REGEX_TO_GROUP,
   GOLANG_DENYLIST_REGEX_TO_GROUP |-> GOLANG_DENYLIST_REGEX_TO_GROUP,
   COMMON_C_DENYLIST_REGEX_TO_GROUP |-> COMMON_C_DENYLIST_REGEX_TO_GROUP,
   C_PLUS_PLUS_REGEX_TO_GROUP |-> C_PLUS_PLUS_REGEX_TO_GROUP,
   QUOTES_REQUIRED_DENYLIST_REGEX_TO_GROUP |-> QUOTES_REQUIRED_DENYLIST_REGEX_TO_GROUP,
   TERRAFORM_DENYLIST_REGEX_TO_GROUP |-> TERRAFORM_DENYLIST_REGEX_TO_GROUP]

\* The file categories that have a rule set of their own.
MappedFileTypes == {
  "GO", "OBJECTIVE_C", "C_SHARP", "C", "C_PLUS_PLUS", "CLS", "JAVA", "JAVASCRIPT",
  "PYTHON", "SWIFT", "TERRAFORM", "JSON", "YAML", "CONFIG", "INI", "PROPERTIES",
  "TOML"}

\* The filetype table: the values are references to the rule-set dicts, and
\* the model names the dict.
REGEX_BY_FILETYPE == [ft \in MappedFileTypes |->
  CASE ft = "GO" -> "GOLANG_DENYLIST_REGEX_TO_GROUP"
    [] ft \in {"OBJECTIVE_C", "C_SHARP", "C"} -> "COMMON_C_DENYLIST_REGEX_TO_GROUP"
    [] ft = "C_PLUS_PLUS" -> "C_PLUS_PLUS_REGEX_TO_GROUP"
    [] ft \in {"CLS", "JAVA", "JAVASCRIPT", "PYTHON", "SWIFT", "JSON"} ->
         "QUOTES_REQUIRED_DENYLIST_REGEX_TO_GROUP"
    [] ft = "TERRAFORM" -> "TERRAFORM_DENYLIST_REGEX_TO_GROUP"
    [] ft \in {"YAML", "CONFIG", "INI", "PROPERTIES", "TOML"} ->
         "CONFIG_DENYLIST_REGEX_TO_GROUP"]

(***************************************************************************)
(* The exclusion pattern a caller supplies is a pattern text.  re.compile  *)
(* is modelled for the texts made of literal characters, the dot, the      *)
(* postfix operators * and ?, and top-level alternation.                   *)
(***************************************************************************)

RECURSIVE ParseAtoms(_, _)
ParseAtoms(text, i) ==
  IF i > Len(text) THEN <<>>
  ELSE LET atom == IF text[i] = "." THEN AnyChar ELSE Lit(text[i])
           post == IF i < Len(text) THEN text[i + 1] ELSE " "
       IN  CASE post = "*" -> <<Star(<<atom>>)>> \o ParseAtoms(text, i + 2)
             [] post = "?" -> <<Opt(<<atom>>)>> \o ParseAtoms(text, i + 2)
             [] OTHER -> <<atom>> \o ParseAtoms(text, i + 1)

\* The alternatives of a text, split at each |.
RECURSIVE SplitAlts(_, _, _)
SplitAlts(text, from, i) ==
  IF i > Len(text) THEN <<SubSeq(text, from, Len(text))>>
  ELSE IF text[i] = "|"
       THEN <<SubSeq(text, from, i - 1)>> \o SplitAlts(text, i + 1, i + 1)
       ELSE SplitAlts(text, from, i + 1)

ParsePattern(text) ==
  LET parts == SplitAlts(text, 1, 1)
  IN  IF Len(parts) = 1 THEN ParseAtoms(parts[1], 1)
      ELSE <<Alt([k \in 1..Len(parts) |-> ParseAtoms(parts[k], 1)])>>

\* re.compile(text), without the flag.
CompileExcludeCased(text) ==
  [pattern |-> text] @@ ReCompile(ParsePattern(text), FALSE)

\* re.compile(text, re.IGNORECASE): the compiled pattern keeps its text.
CompileExclude(text) ==
  [pattern |-> text] @@ ReCompile(ParsePattern(text), TRUE)

(***************************************************************************)
(* KeywordDetector.__init__                                                *)
(***************************************************************************)

\* __init__(keyword_exclude): the detector, with its attribute
\* keyword_exclude.  None and the empty text are falsy and leave it None.
KeywordDetector(keyword_exclude) ==
  [keyword_exclude |->
     IF keyword_exclude = None \/ Len(keyword_exclude[1]) = 0 THEN None
     ELSE Some(CompileExclude(keyword_exclude[1]))]

(***************************************************************************)
(* The inputs.  A line is seven parts in a row: what precedes the keyword, *)
(* the keyword, what stands between it and the value, the opening quote,   *)
(* the value, the closing quote and what follows.  The lines analysed are  *)
(* those that differ from one of the base lines, idioms that the comments  *)
(* of keyword.py give, in at most MaxDeviations parts.                     *)
(***************************************************************************)

MaxDeviations == 1

PartChoices == <<
  \* 1: before the keyword
  <<Chars(""), Chars("\"foo\" == "), Chars("\"foo' != "), Chars("data.put(\"")>>,
  \* 2: the keyword
  <<Chars("pwd"), Chars("PWD"), Chars("my_Token1"), Chars("UserPwd"), Chars("name")>>,
  \* 3: between the keyword and the value
  <<Chars(" = "), Chars(": "), Chars(" := "), Chars(" => "), Chars("("),
    Chars(".assign("), Chars("[0] = @"), Chars("\", "), Chars(" "), Chars("")>>,
  \* 4: the opening quote
  <<Chars("\""), Chars("'"), <<BT>>, Chars("")>>,
  \* 5: the value
  <<Chars("bar"), Chars("$x"), Chars("b,"), Chars("example"), <<"a", BT>>, Chars("")>>,
  \* 6: the closing quote
  <<Chars("\""), Chars("'"), <<BT>>, Chars("")>>,
  \* 7: after the value
  <<Chars(""), Chars(";"), Chars(")"), Chars("\n")>>
>>

\* A base line names one choice for each part.
BaseLines == {
  <<1, 1, 1, 1, 1, 1, 1>>,     \* pwd = "bar"
  <<1, 1, 2, 1, 1, 1, 1>>,     \* pwd: "bar"
  <<4, 1, 8, 1, 1, 1, 3>>,     \* data.put("pwd", "bar")
  <<1, 1, 9, 1, 1, 1, 2>>,     \* pwd "bar";
  <<2, 1, 10, 4, 6, 4, 3>>,    \* "foo" == pwd)
  <<1, 1, 1, 4, 1, 4, 4>>      \* pwd = bar, with the line break a file's line ends in
}

Choice(k) == 1..Len(PartChoices[k])

Picks == Choice(1) \X Choice(2) \X Choice(3) \X Choice(4) \X Choice(5)
           \X Choice(6) \X Choice(7)

Deviations(p, base) == Cardinality({k \in 1..7 : p[k] # base[k]})

RECURSIVE Render(_, _)
Render(p, k) ==
  IF k > 7 THEN <<>> ELSE PartChoices[k][p[k]] \o Render(p, k + 1)

Lines ==
  {Render(p, 1) : p \in {q \in Picks : \E b \in BaseLines :
                                         Deviations(q, b) <= MaxDeviations}}

\* The base lines as they are written.
Idioms == {Render(base, 1) : base \in BaseLines}

\* The exclusion patterns a detector is built with: none, the empty text and
\* two pattern texts.
ExcludeArgs ==
  {None, Some(Chars("")), Some(Chars("foo|x*y")), Some(Chars("P.D: ?"))}

\* One file name for each rule set of the filetype table, by its extension,
\* one of a category the table has no rule set for, and one whose category
\* is unknown.
Filenames ==
  {"main.go", "main.c", "main.cpp", "main.py", "main.tf", "main.yaml", "main.php",
   "README"}

\* The rule sets a caller of analyze_string passes, and None for no override.
RuleSetArgs == {None} \cup {Some(name) : name \in DOMAIN RULE_SETS}

\* The line numbers: the default of the parameter and another one.
LineNumbers == {0, 1}

(***************************************************************************)
(* The searches of the lines analysed, computed once for each pattern.     *)
(***************************************************************************)

RegexNames == {
  "FOLLOWED_BY_COLON_EQUAL_SIGNS_REGEX", "FOLLOWED_BY_COLON_REGEX",
  "FOLLOWED_BY_COLON_QUOTES_REQUIRED_REGEX",
  "FOLLOWED_BY_EQUAL_SIGNS_OPTIONAL_BRACKETS_OPTIONAL_AT_SIGN_QUOTES_REQUIRED_REGEX",
  "FOLLOWED_BY_OPTIONAL_ASSIGN_QUOTES_REQUIRED_REGEX", "FOLLOWED_BY_EQUAL_SIGNS_REGEX",
  "FOLLOWED_BY_EQUAL_SIGNS_QUOTES_REQUIRED_REGEX",
  "PRECEDED_BY_EQUAL_COMPARISON_SIGNS_QUOTES_REQUIRED_REGEX",
  "FOLLOWED_BY_QUOTES_AND_SEMICOLON_REGEX",
  "FOLLOWED_BY_ARROW_FUNCTION_SIGN_QUOTES_REQUIRED_REGEX", "DATA_PUT_PASSWORD_REGEX"}

\* denylist_regex.search(string)
DenylistSearches ==
  [name \in RegexNames, string \in Lines |-> Search(Regex(name), string)]

DenylistSearch(name, string) ==
  IF string \in Lines THEN DenylistSearches[name, string]
  ELSE Search(Regex(name), string)

\* self.keyword_exclude.search(string), by the text of the pattern
ExcludeSearches ==
  [text \in {e[1] : e \in {a \in ExcludeArgs :
                                KeywordDetector(a).keyword_exclude # None}},
    string \in Lines |-> Search(CompileExclude(text), string)]

ExcludeSearch(keyword_exclude, string) ==
  IF <<keyword_exclude.pattern, string>> \in DOMAIN ExcludeSearches
  THEN ExcludeSearches[keyword_exclude.pattern, string]
  ELSE Search(keyword_exclude, string)

\* The test without the two calls of lower(): the entries as they are written
\* against the line as it is written.
AnyAllowedAsWritten(string) ==
  \E a \in 1..Len(ALLOWLIST) : Contains(string, Chars(ALLOWLIST[a]))

\* any(allowed.lower() in string.lower() for allowed in ALLOWLIST)
AnyAllowed(string) ==
  LET low == LowerText(string)
  IN  \E a \in 1..Len(ALLOWLIST) : Contains(low, LowerText(Chars(ALLOWLIST[a])))

AllowlistHits == [string \in Lines |-> AnyAllowed(string)]

(***************************************************************************)
(* The state.                                                              *)
(***************************************************************************)

VARIABLES
  rule_sets,          \* the rule-set dicts of the module, by name
  regex_by_filetype,  \* the filetype table of the module
  built_with,         \* the keyword_exclude argument the detector was built with
  detector,           \* the KeywordDetector
  phase,              \* idle, or done: a call has returned and its result is held
  call,               \* the call that returned
  result,             \* what it returned
  pinned,             \* the first analyze_line call that was remembered, and its result
  saved,              \* what json() gave
  origin,             \* how the detector was made: built, or restored from saved
  verifying,          \* verify: idle, posted (the request is out) or returned
  token,              \* the candidate verify was called with, text or bytes
  request,            \* the POST that verify made
  outcome,            \* what the transport gave for it
  verified,           \* the VerifiedResult that verify returned
  raised,             \* the exception that left verify, if one did
  is_verified         \* the verification status the driver holds for the secret

(***************************************************************************)
(* KeywordDetector: analysis and serialisation                             *)
(***************************************************************************)

Allowlisted(string) ==
  IF string \in Lines THEN AllowlistHits[string] ELSE AnyAllowed(string)

\* self.keyword_exclude and self.keyword_exclude.search(string)
Excluded(self, string) ==
  /\ self.keyword_exclude # None
  /\ Matched(ExcludeSearch(self.keyword_exclude[1], string))

\* The inner loop over one rule set: what match.group(group_number) gives for
\* each pattern that matches, in the order of the dict.
RECURSIVE ScanRuleSet(_, _)
ScanRuleSet(denylist_regex_to_group, string) ==
  IF Len(denylist_regex_to_group) = 0 THEN <<>>
  ELSE LET item == Head(denylist_regex_to_group)
           denylist_regex == Regex(item.regex)
           match == DenylistSearch(item.regex, string)
           later == ScanRuleSet(Tail(denylist_regex_to_group), string)
       IN  IF Matched(match)
           THEN <<MatchGroup(denylist_regex, string, match, item.group)>> \o later
           ELSE later

\* The outer loop: the rule sets in turn, stopping after the first one that
\* had a result.
RECURSIVE ScanAttempts(_, _)
ScanAttempts(attempts, string) ==
  IF Len(attempts) = 0 THEN <<>>
  ELSE LET found == ScanRuleSet(Head(attempts), string)
       IN  IF Len(found) > 0 THEN found ELSE ScanAttempts(Tail(attempts), string)

\* What a generator that evaluates the values of `found` in turn gives its
\* consumer: the values before the first one that raises, and whether one
\* raised.
RECURSIVE Yielded(_)
Yielded(found) ==
  IF Len(found) = 0 THEN [values |-> <<>>, error |-> FALSE]
  ELSE IF Head(found) = IndexError THEN [values |-> <<>>, error |-> TRUE]
  ELSE LET r == Yielded(Tail(found))
       IN  [values |-> <<Head(found)>> \o r.values, error |-> r.error]

\* analyze_string(string, denylist_regex_to_group), the generator run to its
\* end.  A rule set is passed by reference: the model passes its name.
analyze_string(self, string, denylist_regex_to_group) ==
  IF Allowlisted(string) THEN Yielded(<<>>)
  ELSE IF Excluded(self, string) THEN Yielded(<<>>)
  ELSE LET attempts == IF denylist_regex_to_group = None
                       THEN <<rule_sets["QUOTES_REQUIRED_DENYLIST_REGEX_TO_GROUP"]>>
                       ELSE <<rule_sets[denylist_regex_to_group[1]]>>
       IN  Yielded(ScanAttempts(attempts, string))

\* determine_file_type(filename): the category of a file, by its extension.
FileExtension ==
  [go |-> "GO", m |-> "OBJECTIVE_C", cs |-> "C_SHARP", c |-> "C",
   cpp |-> "C_PLUS_PLUS", cls |-> "CLS", java |-> "JAVA", js |-> "JAVASCRIPT",
   py |-> "PYTHON", swift |-> "SWIFT", tf |-> "TERRAFORM", json |-> "JSON",
   yaml |-> "YAML", cfg |-> "CONFIG", ini |-> "INI", properties |-> "PROPERTIES",
   toml |-> "TOML", php |-> "PHP"]

\* What follows the last dot of a file name, or the empty text.
RECURSIVE Extension(_, _)
Extension(filename, i) ==
  IF i = 0 THEN ""
  ELSE IF SubSeq(filename, i, i) = "." THEN SubSeq(filename, i + 1, Len(filename))
  ELSE Extension(filename, i - 1)

determine_file_type(filename) ==
  LET ext == Extension(filename, Len(filename))
  IN  IF ext \in DOMAIN FileExtension THEN FileExtension[ext] ELSE "UNKNOWN"

\* BasePlugin.analyze_line: every candidate of analyze_string becomes a
\* PotentialSecret of the output set; an error of the generator is the
\* error of the call.
PotentialSecrets(got, filename, line_number) ==
  [values |-> {[type |-> "Secret Keyword", filename |-> filename,
                secret |-> got.values[k], line_number |-> line_number]
               : k \in 1..Len(got.values)},
   error |-> got.error]

BasePluginAnalyzeLine(self, filename, line, line_number, denylist_regex_to_group) ==
  PotentialSecrets(analyze_string(self, line, denylist_regex_to_group), filename,
                   line_number)

\* A lookup that falls back to the rule set of the configuration files.
RuleSetForConfig(filetype) ==
  IF filetype \in DOMAIN regex_by_filetype THEN regex_by_filetype[filetype]
  ELSE "CONFIG_DENYLIST_REGEX_TO_GROUP"

\* REGEX_BY_FILETYPE.get(filetype, QUOTES_REQUIRED_DENYLIST_REGEX_TO_GROUP)
RuleSetFor(filetype) ==
  IF filetype \in DOMAIN regex_by_filetype THEN regex_by_filetype[filetype]
  ELSE "QUOTES_REQUIRED_DENYLIST_REGEX_TO_GROUP"

\* KeywordDetector.analyze_line(filename, line, line_number)
analyze_line(self, filename, line, line_number) ==
  LET filetype == determine_file_type(filename)
      denylist_regex_to_group == RuleSetFor(filetype)
  IN  BasePluginAnalyzeLine(self, filename, line, line_number,
                            Some(denylist_regex_to_group))

\* A json() that leaves the pattern out.
JsonWithoutPattern(self) == [keyword_exclude |-> <<>>, name |-> "KeywordDetector"]

\* json(): the pattern text, or the empty text for no pattern, beside what
\* BasePlugin.json() gives.
json(self) ==
  [keyword_exclude |-> IF self.keyword_exclude # None
                       THEN self.keyword_exclude[1].pattern ELSE <<>>,
   name |-> "KeywordDetector"]

(***************************************************************************)
(* Scanning: a driver calls analyze_string and analyze_line on a detector. *)
(***************************************************************************)

scanVars == <<rule_sets, regex_by_filetype, built_with, detector, phase, call, result,
              pinned, saved, origin>>

verifyVars == <<verifying, token, request, outcome, verified, raised, is_verified>>

vars == <<scanVars, verifyVars>>

NoCall == [op |-> "none"]

NoResult == [op |-> "none"]

\* The module is loaded and a detector is built.
Loaded(keyword_exclude) ==
  /\ rule_sets = RULE_SETS
  /\ regex_by_filetype = REGEX_BY_FILETYPE
  /\ built_with = keyword_exclude
  /\ detector = KeywordDetector(keyword_exclude)
  /\ phase = "idle"
  /\ call = NoCall
  /\ result = NoResult
  /\ pinned = None
  /\ saved = None
  /\ origin = "built"

NoOutcome == [kind |-> "none"]

\* No verification has been asked for: the status of a secret is UNVERIFIED.
NotVerifying ==
  /\ verifying = "idle"
  /\ token = None
  /\ request = None
  /\ outcome = NoOutcome
  /\ verified = None
  /\ raised = None
  /\ is_verified = "UNVERIFIED"

Init ==
  /\ \E keyword_exclude \in ExcludeArgs : Loaded(keyword_exclude)
  /\ NotVerifying

\* list(detector.analyze_string(string, denylist_regex_to_group))
AnalyzeString(string, denylist_regex_to_group) ==
  /\ phase = "idle"
  /\ call' = [op |-> "analyze_string", string |-> string,
              denylist_regex_to_group |-> denylist_regex_to_group]
  /\ result' = analyze_string(detector, string, denylist_regex_to_group)
  /\ phase' = "done"
  /\ UNCHANGED <<rule_sets, regex_by_filetype, built_with, detector, pinned, saved,
                 origin, verifyVars>>

\* An analyze_line that looks the rule set up with setdefault, which enters
\* the fallback into the filetype table.
AnalyzeLineSettingDefault(filename, line, line_number) ==
  /\ phase = "idle"
  /\ call' = [op |-> "analyze_line", filename |-> filename, string |-> line,
              line_number |-> line_number]
  /\ result' = analyze_line(detector, filename, line, line_number)
  /\ phase' = "done"
  /\ regex_by_filetype' =
       [ft \in DOMAIN regex_by_filetype \cup {determine_file_type(filename)} |->
          RuleSetFor(ft)]
  /\ UNCHANGED <<rule_sets, built_with, detector, pinned, saved, origin, verifyVars>>

\* detector.analyze_line(filename, line, line_number)
AnalyzeLine(filename, line, line_number) ==
  /\ phase = "idle"
  /\ call' = [op |-> "analyze_line", filename |-> filename, string |-> line,
              line_number |-> line_number]
  /\ result' = analyze_line(detector, filename, line, line_number)
  /\ phase' = "done"
  /\ UNCHANGED <<rule_sets, regex_by_filetype, built_with, detector, pinned, saved,
                 origin, verifyVars>>

\* The driver has consumed the result.
Return ==
  /\ phase = "done"
  /\ phase' = "idle"
  /\ call' = NoCall
  /\ result' = NoResult
  /\ UNCHANGED <<rule_sets, regex_by_filetype, built_with, detector, pinned, saved,
                 origin, verifyVars>>

\* The driver makes its calls one after the other.
Next ==
  \/ /\ phase = "idle"
     /\ \E string \in Lines, denylist_regex_to_group \in RuleSetArgs :
          AnalyzeString(string, denylist_regex_to_group)
  \/ /\ phase = "idle"
     /\ \E filename \in Filenames, line \in Lines, line_number \in LineNumbers :
          AnalyzeLine(filename, line, line_number)
  \/ Return

Spec == Init /\ [][Next]_vars

(***************************************************************************)
(* The round trip through a baseline: json() is saved, and a detector is   *)
(* built again from the keyword_exclude value that was saved.              *)
(***************************************************************************)

\* detector.json(); the driver keeps what the detector it built gave.
Json ==
  /\ phase = "idle"
  /\ call' = [op |-> "json"]
  /\ result' = [values |-> json(detector), error |-> FALSE]
  /\ phase' = "done"
  /\ saved' = IF origin = "built" THEN Some(json(detector)) ELSE saved
  /\ UNCHANGED <<rule_sets, regex_by_filetype, built_with, detector, pinned, origin,
                 verifyVars>>

\* KeywordDetector(keyword_exclude=saved['keyword_exclude'])
Restore ==
  /\ phase = "idle"
  /\ saved /= None
  /\ origin = "built"
  /\ detector' = KeywordDetector(Some(saved[1].keyword_exclude))
  /\ origin' = "restored"
  /\ UNCHANGED <<rule_sets, regex_by_filetype, built_with, phase, call, result, pinned,
                 saved, verifyVars>>

NextRoundTrip ==
  \/ Json
  \/ Restore
  \/ /\ phase = "idle"
     /\ \E string \in Lines, denylist_regex_to_group \in RuleSetArgs :
          AnalyzeString(string, denylist_regex_to_group)
  \/ Return

SpecRoundTrip == Init /\ [][NextRoundTrip]_vars

(***************************************************************************)
(* Repeated calls: the driver keeps the result of one analyze_line call    *)
(* and goes on calling.                                                    *)
(***************************************************************************)

\* The driver keeps the call that returned and its result.
Remember ==
  /\ phase = "done"
  /\ call.op = "analyze_line"
  /\ pinned = None
  /\ pinned' = Some([call |-> call, result |-> result])
  /\ phase' = "idle"
  /\ call' = NoCall
  /\ result' = NoResult
  /\ UNCHANGED <<rule_sets, regex_by_filetype, built_with, detector, saved, origin,
                 verifyVars>>

NextRepeat ==
  \/ /\ phase = "idle"
     /\ \E string \in Idioms, denylist_regex_to_group \in RuleSetArgs :
          AnalyzeString(string, denylist_regex_to_group)
  \/ /\ phase = "idle"
     /\ \E filename \in Filenames, line \in Idioms, line_number \in LineNumbers :
          AnalyzeLine(filename, line, line_number)
  \/ Remember
  \/ Return

SpecRepeat == Init /\ [][NextRepeat]_vars

(***************************************************************************)
(* Verification of a candidate with the authority that issued it: the      *)
(* detector of IBM Cloud IAM keys.  verify makes one POST with the         *)
(* candidate as the key under test and reads the status code.              *)
(***************************************************************************)

TOKEN_URL == "https://iam.cloud.ibm.com/identity/token"

StatusSuccess == 200

StatusAuthFailure == 400

\* The characters of the keys, and the byte of each in UTF-8, in hexadecimal.
KeyAlphabet == Chars("abcd1234ABCD-_")

KeyBytes ==
  <<"61", "62", "63", "64", "31", "32", "33", "34", "41", "42", "43", "44", "2d", "5f">>

\* str.encode('UTF-8') and bytes.decode('UTF-8')
Encode(text) ==
  [i \in 1..Len(text) |->
     KeyBytes[CHOOSE k \in 1..Len(KeyAlphabet) : KeyAlphabet[k] = text[i]]]

Decode(bytes) ==
  [i \in 1..Len(bytes) |->
     KeyAlphabet[CHOOSE k \in 1..Len(KeyBytes) : KeyBytes[k] = bytes[i]]]

\* A candidate as text, and as the raw bytes of that text.
Text(text) == [form |-> "text", value |-> text]

Bytes(text) == [form |-> "bytes", value |-> Encode(text)]

\* The key as it was given, bytes left as bytes.
ApiKeyAsGiven(candidate) == candidate.value

\* The key that goes into the request: bytes are decoded, text is taken as it
\* is.
ApiKey(candidate) ==
  IF candidate.form = "bytes" THEN Decode(candidate.value) ELSE candidate.value

\* The one request of a verification.
Post(apikey) == [method |-> "POST", url |-> TOKEN_URL, apikey |-> apikey]

\* What the transport can give for the request: a response with a status
\* code, or a failure to get one.
Response(status_code) == [kind |-> "response", status_code |-> status_code]

Failure(error) == [kind |-> "failure", error |-> error]

Cancelled == [kind |-> "cancelled"]

\* A result that takes everything but success for a rejection.
VerifiedResultBySuccess(received) ==
  IF received.kind = "response" /\ received.status_code = StatusSuccess
  THEN "VERIFIED_TRUE"
  ELSE "VERIFIED_FALSE"

\* The VerifiedResult for what the transport gave: success proves the key,
\* an explicit rejection disproves it, and nothing else says anything.
VerifiedResult(received) ==
  IF received.kind = "response" /\ received.status_code = StatusSuccess
  THEN "VERIFIED_TRUE"
  ELSE IF received.kind = "response" /\ received.status_code = StatusAuthFailure
  THEN "VERIFIED_FALSE"
  ELSE "UNVERIFIED"

\* The keys that are put to the authority, the status codes it can answer
\* with and the ways the transport can fail.
Keys == {Chars("abcd1234"), Chars("ABCD--__"), Chars("a1-_"), Chars("d")}

Candidates == {Text(key) : key \in Keys} \cup {Bytes(key) : key \in Keys}

StatusCodes == {StatusSuccess, 201, 302, StatusAuthFailure, 401, 403, 404, 429, 500, 503}

TransportErrors == {"ConnectionError", "Timeout"}

\* verify(token), up to the point where it waits for the authority.
Verify(candidate) ==
  /\ verifying = "idle"
  /\ verifying' = "posted"
  /\ token' = Some(candidate)
  /\ request' = Some(Post(ApiKey(candidate)))
  /\ UNCHANGED <<outcome, verified, raised, is_verified, scanVars>>

\* The authority answers, and verify returns.
Respond(status_code) ==
  /\ verifying = "posted"
  /\ verifying' = "returned"
  /\ outcome' = Response(status_code)
  /\ verified' = Some(VerifiedResult(Response(status_code)))
  /\ UNCHANGED <<token, request, raised, is_verified, scanVars>>

\* The request fails or runs out of time, and verify returns.
Fail(error) ==
  /\ verifying = "posted"
  /\ verifying' = "returned"
  /\ outcome' = Failure(error)
  /\ verified' = Some(VerifiedResult(Failure(error)))
  /\ UNCHANGED <<token, request, raised, is_verified, scanVars>>

\* The call is cancelled while it waits: what was pending is discarded.
Cancel ==
  /\ verifying = "posted"
  /\ verifying' = "returned"
  /\ outcome' = Cancelled
  /\ UNCHANGED <<token, request, verified, raised, is_verified, scanVars>>

\* The driver takes what verify gave: a result becomes the status of the
\* secret, and an exception would end the scan.
Record ==
  /\ verifying = "returned"
  /\ verifying' = "recorded"
  /\ is_verified' = IF raised = None /\ verified /= None THEN verified[1] ELSE is_verified
  /\ phase' = IF raised = None THEN phase ELSE "aborted"
  /\ UNCHANGED <<token, request, outcome, verified, raised, rule_sets,
                 regex_by_filetype, built_with, detector, call, result, pinned,
                 saved, origin>>

\* The driver goes on to the next secret.
NextSecret ==
  /\ verifying = "recorded"
  /\ verifying' = "idle"
  /\ token' = None
  /\ request' = None
  /\ outcome' = NoOutcome
  /\ verified' = None
  /\ raised' = None
  /\ is_verified' = "UNVERIFIED"
  /\ UNCHANGED scanVars

\* A detector is built, and no verification has been asked for.
InitVerify == Loaded(None) /\ NotVerifying

\* Secrets are verified one after the other while lines are analysed.
NextVerify ==
  \/ /\ verifying = "idle"
     /\ \E candidate \in Candidates : Verify(candidate)
  \/ /\ verifying = "posted"
     /\ \E status_code \in StatusCodes : Respond(status_code)
  \/ /\ verifying = "posted"
     /\ \E error \in TransportErrors : Fail(error)
  \/ Cancel
  \/ Record
  \/ NextSecret
  \/ /\ phase = "idle"
     /\ \E line \in Idioms : AnalyzeLine("main.py", line, 0)
  \/ Return

SpecVerify == InitVerify /\ [][NextVerify]_vars

(***************************************************************************)
(* What the claims speak of.                                               *)
(***************************************************************************)

\* A call has returned without raising.
Returned(op) == phase = "done" /\ call.op = op /\ ~result.error

\* The call that returned yielded no candidate.
NoCandidate ==
  /\ ~result.error
  /\ call.op = "analyze_string" => result.values = <<>>
  /\ call.op = "analyze_line" => result.values = {}

\* The rule set the call that returned was to use.
RuleSetOfCall ==
  IF call.op = "analyze_line" THEN RuleSetFor(determine_file_type(call.filename))
  ELSE IF call.denylist_regex_to_group = None
  THEN "QUOTES_REQUIRED_DENYLIST_REGEX_TO_GROUP"
  ELSE call.denylist_regex_to_group[1]

\* The lines that hold an entry of ALLOWLIST at some place, letter case
\* apart.
AllowlistedLines ==
  {string \in Lines :
     \E a \in 1..Len(ALLOWLIST) :
       LET entry == Chars(ALLOWLIST[a])
       IN  \E at \in 0..(Len(string) - Len(entry)) :
             \A k \in 1..Len(entry) : Lower(string[at + k]) = Lower(entry[k])}

\* C1: a line that holds an ALLOWLIST entry as a case-insensitive substring
\* yields no candidate, from analyze_string under every rule set and every
\* exclusion pattern and so from analyze_line, whatever else it holds.
C1_AllowlistVeto ==
  phase = "done" /\ call.string \in AllowlistedLines => NoCandidate

\* An allowlisted line, in a letter case that is not that of the entry, whose
\* keyword and value a family of the rule set matches, has yielded nothing.
C1_Witness ==
  /\ Returned("analyze_string")
  /\ call.string = Chars("UserPwd = \"bar\"")
  /\ call.string \in AllowlistedLines
  /\ Len(ScanRuleSet(rule_sets[RuleSetOfCall], call.string)) > 0
  /\ result.values = <<>>

\* What the families of a rule set that match a line extract, in the order
\* of the rule set.
Extracted(name, string) == ScanRuleSet(rule_sets[name], string)

\* C2: first match wins.  A call of analyze_string yields at most one
\* candidate, and when a family of its rule set matches a line that nothing
\* vetoes, it yields exactly the candidate of the first family that matches.
C2_FirstMatchWins ==
  Returned("analyze_string") =>
    /\ Len(result.values) <= 1
    /\ (/\ ~Allowlisted(call.string)
        /\ ~Excluded(detector, call.string)
        /\ Len(Extracted(RuleSetOfCall, call.string)) > 0)
         => result.values = <<Extracted(RuleSetOfCall, call.string)[1]>>

\* The candidate, as text or as bytes, stands for this key.
StandsFor(key) == token \in {Some(Text(key)), Some(Bytes(key))}

\* C3: when the authority answers the one POST with 200, verify returns
\* VERIFIED_TRUE, and when it answers with 400, VERIFIED_FALSE; a candidate
\* given as text and the same candidate given as bytes make the same
\* request, and so have the same outcome.
C3_VerifyByStatus ==
  verifying = "returned" /\ outcome.kind = "response" =>
    /\ raised = None
    /\ outcome.status_code = 200 => verified = Some("VERIFIED_TRUE")
    /\ outcome.status_code = 400 => verified = Some("VERIFIED_FALSE")
    /\ \A key \in Keys :
         StandsFor(key) =>
           request = Some([method |-> "POST", url |-> TOKEN_URL, apikey |-> key])

\* A key given as bytes has been rejected by the authority.
C3_Witness ==
  /\ verifying = "returned"
  /\ token = Some(Bytes(Chars("abcd1234")))
  /\ request[1].apikey = Chars("abcd1234")
  /\ outcome = Response(400)
  /\ verified = Some("VERIFIED_FALSE")

\* The verification call ended without an answer that says anything about
\* the key: a failure of the network, a timeout, a cancellation, or a status
\* code that is neither 200 nor 400.
EndedUndecided ==
  \/ outcome.kind = "failure"
  \/ outcome.kind = "cancelled"
  \/ outcome.kind = "response" /\ outcome.status_code \notin {200, 400}

\* C4: a verification call that ends in a network failure, a timeout, a
\* cancellation or a status code other than 200 and 400 leaves the status of
\* the secret UNVERIFIED; the status is VERIFIED_FALSE only after the
\* authority answered 400; and no exception leaves verify, so the scan is
\* never aborted.
C4_FailuresUnverified ==
  /\ verifying \in {"returned", "recorded"} /\ EndedUndecided =>
       /\ verified \in {None, Some("UNVERIFIED")}
       /\ is_verified = "UNVERIFIED"
  /\ verified = Some("VERIFIED_FALSE") \/ is_verified = "VERIFIED_FALSE" =>
       outcome = [kind |-> "response", status_code |-> 400]
  /\ raised = None
  /\ phase /= "aborted"

\* A verification timed out, the secret was recorded as UNVERIFIED, and a
\* line analysed after that gave its candidate.
C4_Witness ==
  /\ verifying = "recorded"
  /\ outcome = Failure("Timeout")
  /\ is_verified = "UNVERIFIED"
  /\ Returned("analyze_line")
  /\ result.values /= {}

\* The pattern families that require the value to be quoted.
QuoteRequiredFamilies == {
  "FOLLOWED_BY_COLON_QUOTES_REQUIRED_REGEX",
  "FOLLOWED_BY_EQUAL_SIGNS_OPTIONAL_BRACKETS_OPTIONAL_AT_SIGN_QUOTES_REQUIRED_REGEX",
  "FOLLOWED_BY_OPTIONAL_ASSIGN_QUOTES_REQUIRED_REGEX",
  "FOLLOWED_BY_EQUAL_SIGNS_QUOTES_REQUIRED_REGEX",
  "PRECEDED_BY_EQUAL_COMPARISON_SIGNS_QUOTES_REQUIRED_REGEX",
  "FOLLOWED_BY_QUOTES_AND_SEMICOLON_REGEX",
  "FOLLOWED_BY_ARROW_FUNCTION_SIGN_QUOTES_REQUIRED_REGEX",
  "DATA_PUT_PASSWORD_REGEX"}

\* In the match of a family on a line, the value that group k holds stands
\* between a quote character and the same quote character.
Balanced(string, m, k) ==
  LET from == m.caps[k][1]
      to == m.caps[k][2]
  IN  /\ from > 1
      /\ to <= Len(string)
      /\ string[from - 1] \in {"\"", "'", BT}
      /\ string[to] = string[from - 1]

\* C5: quote balance.  Whenever a family that requires a quoted value
\* matches the line of a call, in every rule set, the character that closes
\* the value is the quote character that opened it; a value opened with one
\* quote character and closed with another gives no match of that family.
C5_QuoteBalance ==
  Returned("analyze_string") =>
    \A k \in 1..Len(rule_sets[RuleSetOfCall]) :
      LET item == rule_sets[RuleSetOfCall][k]
          m == DenylistSearch(item.regex, call.string)
      IN  item.regex \in QuoteRequiredFamilies /\ Matched(m) =>
            Balanced(call.string, m, item.group)

\* What the quote-required rule set gives for the line of the call: nothing
\* when the line is vetoed, and else what its families extract.
ByQuotesRequired ==
  IF Allowlisted(call.string) \/ Excluded(detector, call.string) THEN <<>>
  ELSE Extracted("QUOTES_REQUIRED_DENYLIST_REGEX_TO_GROUP", call.string)

\* C6: for a file name whose category is UNKNOWN or has no entry in the
\* filetype table, analyze_line completes without error and its candidates
\* are those of the quote-required rule set; analyze_string without a
\* rule-set override gives those of the quote-required rule set too.
C6_DefaultRuleSet ==
  /\ phase = "done" /\ call.op = "analyze_line"
       /\ determine_file_type(call.filename) \notin DOMAIN REGEX_BY_FILETYPE =>
       /\ ~result.error
       /\ {secret.secret : secret \in result.values}
            = {ByQuotesRequired[k] : k \in 1..Len(ByQuotesRequired)}
  /\ phase = "done" /\ call.op = "analyze_string"
       /\ call.denylist_regex_to_group = None =>
       /\ ~result.error
       /\ result.values = ByQuotesRequired

\* A line of the data.put idiom in a file of unknown category has given its
\* candidate, which only the quote-required rule set and the one built on it
\* find.
C6_Witness ==
  /\ Returned("analyze_line")
  /\ call.filename = "README"
  /\ determine_file_type(call.filename) = "UNKNOWN"
  /\ call.string = Chars("data.put(\"pwd\", \"bar\")")
  /\ Extracted("CONFIG_DENYLIST_REGEX_TO_GROUP", call.string) = <<>>
  /\ \E secret \in result.values : secret.secret = Chars("bar")

\* C7: the round trip of json().  A detector built from the keyword_exclude
\* value of d.json() gives, for every line and rule set, the candidates that
\* d gives, and its json() is d.json(), whether d was built with no pattern,
\* the empty one or a pattern.
C7_JsonRoundTrip ==
  origin = "restored" =>
    /\ Returned("json") => result.values = saved[1]
    /\ phase = "done" /\ call.op = "analyze_string" =>
         result = analyze_string(KeywordDetector(built_with), call.string,
                                 call.denylist_regex_to_group)

\* A detector restored from the json() of one with an exclusion pattern has
\* given nothing for a line that the pattern matches and that the rule set
\* would give a candidate for.
C7_Witness ==
  /\ origin = "restored"
  /\ built_with = Some(Chars("foo|x*y"))
  /\ saved[1].keyword_exclude = Chars("foo|x*y")
  /\ Returned("analyze_string")
  /\ call.string = Chars("\"foo\" == pwd = \"bar\"")
  /\ Len(Extracted(RuleSetOfCall, call.string)) > 0
  /\ result.values = <<>>

\* What the exclusion patterns of the model say, read off their texts: one
\* matches a line that holds foo or a y, the other a line that holds a p, a
\* character other than the line feed, a d and a colon in a row, letter case
\* apart.
PatternMatches(text, string) ==
  LET low == LowerText(string)
  IN  IF text = Chars("foo|x*y")
      THEN Contains(low, Chars("foo")) \/ Contains(low, Chars("y"))
      ELSE /\ text = Chars("P.D: ?")
           /\ \E i \in 1..(Len(low) - 3) :
                /\ low[i] = "p"
                /\ low[i + 1] /= "\n"
                /\ low[i + 2] = "d"
                /\ low[i + 3] = ":"

\* C8: with an exclusion pattern, analyze_string yields nothing for a line
\* that the pattern matches at some place, under every rule set and whatever
\* the line holds, and for a line that the pattern does not match it yields
\* what a detector without an exclusion pattern yields.
C8_ExclusionVeto ==
  /\ phase = "done"
  /\ call.op = "analyze_string"
  /\ built_with \notin {None, Some(Chars(""))}
  => IF PatternMatches(built_with[1], call.string)
     THEN NoCandidate
     ELSE result = analyze_string(KeywordDetector(None), call.string,
                                  call.denylist_regex_to_group)

\* A line that the pattern matches in another letter case, and that the rule
\* set would give a candidate for, has yielded nothing.
C8_Witness ==
  /\ Returned("analyze_string")
  /\ built_with = Some(Chars("P.D: ?"))
  /\ call.string = Chars("pwd: \"bar\"")
  /\ PatternMatches(built_with[1], call.string)
  /\ Len(Extracted(RuleSetOfCall, call.string)) > 0
  /\ result.values = <<>>

\* What makes two PotentialSecrets the same: the type, the file and the
\* secret.
Identities(secrets) ==
  {[type |-> secret.type, filename |-> secret.filename, secret |-> secret.secret]
     : secret \in secrets}

\* The call that returned is on the file name and line of the call that was
\* kept.
SameFileAndLine ==
  /\ pinned /= None
  /\ phase = "done"
  /\ call.op = "analyze_line"
  /\ call.filename = pinned[1].call.filename
  /\ call.string = pinned[1].call.string

\* C9: idempotence.  Whatever calls of analyze_line and analyze_string came
\* between, a call of analyze_line on a file name and line returns the
\* result set that an earlier call on them returned; and no call changes the
\* rule-set tables, the filetype table or the exclusion pattern of the
\* detector.
C9_Idempotence ==
  /\ rule_sets = RULE_SETS
  /\ regex_by_filetype = REGEX_BY_FILETYPE
  /\ detector = KeywordDetector(built_with)
  /\ SameFileAndLine =>
       /\ result.error = pinned[1].result.error
       /\ Identities(result.values) = Identities(pinned[1].result.values)
       /\ call.line_number = pinned[1].call.line_number => result = pinned[1].result

\* A later call on the file name and line of the call that was kept, for a
\* file of a category without a rule set of its own, has returned the same
\* secret.
C9_Witness ==
  /\ SameFileAndLine
  /\ call.filename = "main.php"
  /\ call.line_number = pinned[1].call.line_number
  /\ result.values /= {}
  /\ result = pinned[1].result

\* The instructions of a compiled pattern that stand between the opening and
\* the closing of its group k: what the group has to match.
GroupCode(pattern, k) ==
  LET opens == CHOOSE i \in 1..Len(pattern.prog) :
                 pattern.prog[i].op = "open" /\ pattern.prog[i].k = k
      closes == CHOOSE i \in 1..Len(pattern.prog) :
                  pattern.prog[i].op = "close" /\ pattern.prog[i].k = k
  IN  SubSeq(pattern.prog, opens + 1, closes - 1)

\* The groups of each pattern family that are around the secret body.
SecretGroups ==
  [name \in RegexNames |->
     {k \in 1..Regex(name).groups :
        GroupCode(Regex(name), k) = Gen(SECRET, Regex(name).ignorecase)}]

\* The rule sets that the filetype table names.
TableRuleSets == {regex_by_filetype[ft] : ft \in DOMAIN regex_by_filetype}

\* C10: in every rule set of the filetype table, the group index paired with
\* a pattern family is the number of a group of that family's pattern, and
\* that group is the one around the secret body; so taking the candidate out
\* of a match never fails, and every call of analyze_string and analyze_line
\* returns a result, which may be empty, without raising.
C10_GroupIndexValid ==
  /\ \A name \in TableRuleSets :
       \A k \in 1..Len(rule_sets[name]) :
         LET item == rule_sets[name][k]
         IN  /\ item.group \in 1..Regex(item.regex).groups
             /\ item.group \in SecretGroups[item.regex]
  /\ phase = "done" =>
       /\ ~result.error
       /\ call.op = "analyze_string" =>
            \A k \in 1..Len(result.values) : result.values[k] /= NoneValue
       /\ call.op = "analyze_line" =>
            \A secret \in result.values : secret.secret /= NoneValue

\* A C line with brackets and an at sign, whose pattern has four groups
\* before the one of the secret, has given the secret.
C10_Witness ==
  /\ Returned("analyze_line")
  /\ call.filename = "main.c"
  /\ call.string = Chars("pwd[0] = @\"bar\"")
  /\ {secret.secret : secret \in result.values} = {Chars("bar")}

\* The pairs of lines analysed that differ only in the letter case of the
\* keyword: one is written with pwd where the other is written with PWD.
KeywordCasePairs ==
  LET Analysed(p) == \E base \in BaseLines : Deviations(p, base) <= MaxDeviations
      Swapped(p) == [p EXCEPT ![2] = IF p[2] = 1 THEN 2 ELSE 1]
  IN  {<<Render(p, 1), Render(Swapped(p), 1)>> :
         p \in {q \in Picks : q[2] \in {1, 2} /\ Analysed(q) /\ Analysed(Swapped(q))}}

\* What a family extracts from a line: the text of its group, or nothing.
FamilyCandidate(item, string) ==
  IF Matched(DenylistSearch(item.regex, string))
  THEN Some(MatchGroup(Regex(item.regex), string,
                       DenylistSearch(item.regex, string), item.group))
  ELSE None

\* C11: the keyword is matched without regard to letter case in every
\* family.  When a family of the rule set matches the line of a call, it
\* matches the line that differs only in the letter case of the keyword too,
\* and takes the same candidate from it.
C11_KeywordCaseInsensitive ==
  Returned("analyze_string") =>
    \A pair \in KeywordCasePairs :
      pair[1] = call.string =>
        \A k \in 1..Len(rule_sets[RuleSetOfCall]) :
          LET item == rule_sets[RuleSetOfCall][k]
          IN  FamilyCandidate(item, pair[1]) /= None =>
                FamilyCandidate(item, pair[2]) = FamilyCandidate(item, pair[1])

\* The characters that break a line.
LineBreaks == {"\n", "\r", "\f", VT}

\* The shape the comments of the secret body give a candidate.
WellShaped(secret) ==
  /\ Len(secret) > 0
  /\ secret[1] \in SecretStart
  /\ \A i \in 1..Len(secret) : secret[i] \notin LineBreaks \cup {"'", "\""}
  /\ secret[Len(secret)] \notin LineBreaks \cup {",", BT, "'", "\""}

\* C12: every candidate analyze_string yields is a non-empty string that
\* starts with an alphanumeric or one of _ ! @ # % ^ & (never $), holds no
\* line break and no single or double quote, and does not end in a line
\* break, a comma, a backtick or a quote.
C12_CandidateShape ==
  Returned("analyze_string") =>
    \A k \in 1..Len(result.values) : WellShaped(result.values[k])

====
